---- MODULE Spec2Model ----
(***************************************************************************)
(* whispr: the vote transaction, the post store, the per-IP rate limiter   *)
(* and the WebSocket hub, as state machines.                               *)
(*                                                                         *)
(* The store is the transactional database behind gorm.io/gorm.  A         *)
(* transaction's writes are private until its commit; an UPDATE of a row   *)
(* holds that row's write lock until the transaction ends; a plain SELECT  *)
(* takes no lock.  Any statement may fail with a store error, and then the *)
(* whole transaction is rolled back (gorm's DB.Transaction).               *)
(***************************************************************************)
EXTENDS Integers, Sequences, FiniteSets, TLC

(* ----------------------------- bounds --------------------------------- *)
\* concurrent POST /api/posts/:id/vote requests
NumVoters == 2
\* the votes of the three-vote scenario (+1, +1, -1 on one post)
ScenarioVotes == 3
\* concurrent POST /api/posts requests
NumPosters == 3
\* post ids a request may name
MaxPostId == 2
\* room in the hub's Broadcast channel
ChanCap == 1
\* concurrent DELETE /api/posts/:id requests
NumAdmins == 2
\* read queries
NumReads == 2
\* live connections, and the room in a connection's outbound queue
NumConns == 2
SendCap == 2
\* payloads handed to the hub
NumMsgs == 3
\* refill intervals that pass
MaxTicks == 2

(* ------------------------- program constants -------------------------- *)
maxPostLength == 1000
rateLimitBurst == 1
\* rateLimitRPS = 1.0 / 3.0: one token every 3 seconds
refillSeconds == 3
\* the sweep sleeps 10 minutes between two scans
sweepMinutes == 10
\* CreatePost stores every new post with Score 1
InitialScore == 1
\* GetTrendingPosts: Limit(20)
trendingLimit == 20

(* ----------------------------- processes ------------------------------ *)
Max(a, b) == IF a >= b THEN a ELSE b
\* request n + 1 is the DeletePost request beside n votes
Procs == 1..(Max(Max(NumVoters, ScenarioVotes), NumPosters) + 1)
PostIds == 1..MaxPostId

\* JSON bodies and headers the requests carry
VoteValues == {-1, 0, 1, 2}
ContentLens == {0, 1, maxPostLength + 1}
RequiredToken == "secret"
Tokens == {"", "guess", RequiredToken}
\* client addresses (c.ClientIP()) and rate.Limiter objects
NumIPs == 1
MaxLimiters == 2
IPs == 1..NumIPs
LimIds == 1..MaxLimiters
ConnIds == 1..NumConns
MsgIds == 1..NumMsgs
NoReq == [post |-> 0, value |-> 0, ip |-> 0, token |-> ""]

VARIABLES
    posts,      \* the committed posts table: id -> [exists, score, hidden]
    voteRows,   \* the committed votes table: a set of [by, post, value]
    rowLock,    \* the transactions holding the write lock of each post row
    pc,         \* where each request's handler stands
    req,        \* each request's input: [post, value, ip, token]
    local,      \* each handler's locals: [score, newScore] (post.Score, newScore)
    resp,       \* the HTTP status each request was answered with (0: none yet)
    Broadcast,  \* the hub's Broadcast channel
    visitors,   \* IPRateLimiter.visitors: a map ip -> limiter
    limTokens,  \* the tokens of each rate.Limiter object
    limMade,    \* how many rate.Limiter objects were made so far
    held,       \* the limiter a middleware call got from GetLimiter: request -> limiter
    limPassed,  \* whether the rate limiter admitted the request
    now,        \* refill intervals passed since the first request arrived
    lastSweep,  \* when (in refill intervals) the sweep last ran
    sweepKept,  \* history: the map entries the last sweep kept
    clients,    \* the hub's set of registered connections
    sendq,      \* each connection's bounded outbound queue
    closed,     \* the connections whose outbound queue was closed
    closes,     \* how many times each connection's outbound queue was closed
    wire,       \* the id of the payload last written to each connection's
                \* network link (0: none yet)
    conn,       \* each connection: "new", "open", "failed" (a duty failed and
                \* the connection waits for the hub to take its unregister
                \* request) or "gone"
    lastRead,   \* the answer of the latest read query: [status, posts]
    reads,      \* how many read queries were answered
    atCall      \* history: the hub's set when a payload was handed over, kept
                \* for the payloads in the channel and the last one fanned out

storeVars == <<posts, voteRows, rowLock>>
procVars == <<pc, req, local, resp>>
limVars == <<visitors, limTokens, limMade, held, limPassed>>
readVars == <<lastRead, reads>>
hubVars == <<clients, sendq, closed, closes, wire, conn, atCall>>
vars == <<posts, voteRows, rowLock, pc, req, local, resp, Broadcast,
          visitors, limTokens, limMade, held, limPassed, now, lastSweep,
          sweepKept,
          clients, sendq, closed, closes, wire, conn, lastRead, reads, atCall>>

NoPost == [exists |-> FALSE, score |-> 0, hidden |-> FALSE]

\* refill intervals between two sweeps: time.Sleep(10 * time.Minute)
SweepEvery == (sweepMinutes * 60) \div refillSeconds

\* no request yet, the hub's channel empty, no rate limiter made; the server
\* has been up for a sweep period, so the sweep's time.Sleep may return any
\* moment
InitRest ==
    /\ voteRows = {}
    /\ rowLock = [p \in PostIds |-> {}]
    /\ pc = [h \in Procs |-> "idle"]
    /\ req = [h \in Procs |-> NoReq]
    /\ local = [h \in Procs |-> [score |-> 0, newScore |-> 0]]
    /\ resp = [h \in Procs |-> 0]
    /\ Broadcast = <<>>
    /\ visitors = <<>>
    /\ limTokens = [l \in LimIds |-> 0]
    /\ limMade = 0
    /\ held = <<>>
    /\ limPassed = [h \in Procs |-> FALSE]
    /\ now = 0
    /\ lastSweep = 0 - SweepEvery
    /\ sweepKept = {}
    /\ clients = {}
    /\ sendq = [c \in ConnIds |-> <<>>]
    /\ closed = {}
    /\ closes = [c \in ConnIds |-> 0]
    /\ wire = [c \in ConnIds |-> 0]
    /\ conn = [c \in ConnIds |-> "new"]
    /\ lastRead = [status |-> 0, posts |-> {}]
    /\ reads = 0
    /\ atCall = <<>>

\* a new database
InitEmpty == InitRest /\ posts = [p \in PostIds |-> NoPost]

\* the database after one CreatePost: post 1 as CreatePost stores it
Init ==
    /\ InitRest
    /\ posts = [p \in PostIds |->
                  IF p = 1
                  THEN [exists |-> TRUE, score |-> InitialScore, hidden |-> FALSE]
                  ELSE NoPost]

(* ------------------------- request binding ---------------------------- *)
\* a binding tag that lost its oneof
BindVoteRequiredOnly(value) == value # 0

\* VoteInput: binding:"required,oneof=-1 1"; required rejects the zero value
BindVote(value) == value # 0 /\ value \in {-1, 1}

\* CreatePostInput: binding:"required,min=1,max=1000"
BindCreate(len) == len >= 1 /\ len <= maxPostLength

\* requests are numbered in the order in which they arrive
Arrived(h) == \A g \in 1..(h - 1) : pc[g] # "idle"

(* ----------------------------- responses ------------------------------ *)
Answer(h, status) ==
    /\ resp' = [resp EXCEPT ![h] = status]
    /\ pc' = [pc EXCEPT ![h] = "done"]

\* DB.Transaction rolls back on an error: the transaction's row lock goes
Rollback(h) == [p \in PostIds |-> rowLock[p] \ {h}]

\* e.Hub.Broadcast <- jsonMsg
broadcastMessage(msg) ==
    /\ Len(Broadcast) < ChanCap
    /\ Broadcast' = Append(Broadcast, msg)

(* ------------------------------ VoteOnPost ---------------------------- *)
\* ShouldBindJSON, and then DB.Transaction begins
VoteBind(h) ==
    /\ pc[h] = "idle"
    /\ Arrived(h)
    /\ \E p \in PostIds, v \in VoteValues :
        /\ req' = [req EXCEPT ![h] = [NoReq EXCEPT !.post = p, !.value = v]]
        /\ IF BindVote(v)
             THEN /\ pc' = [pc EXCEPT ![h] = "tx"]
                  /\ resp' = resp
             ELSE Answer(h, 400)
    /\ UNCHANGED <<readVars, storeVars, local, Broadcast, limVars, now, lastSweep, sweepKept, hubVars>>

\* a SELECT by primary key without the Where("hidden = ?", false)
VoteSelectableAnyRow(p) == posts[p].exists

\* the row the transaction's SELECT returns: Where("hidden = ?", false).
\* Set("gorm:query_option", "FOR UPDATE") is a setting of gorm v1; gorm.io/gorm
\* reads no such setting, so the SELECT is sent without FOR UPDATE and takes
\* no row lock.
VoteSelectable(p) == posts[p].exists /\ ~posts[p].hidden

VoteFirst(h) ==
    /\ pc[h] = "tx"
    /\ \E ok \in BOOLEAN :
        IF ~ok THEN Answer(h, 500) /\ local' = local
        ELSE IF VoteSelectable(req[h].post)
        THEN /\ local' = [local EXCEPT ![h].score = posts[req[h].post].score]
             /\ pc' = [pc EXCEPT ![h] = "read"]
             /\ resp' = resp
        ELSE Answer(h, 404) /\ local' = local
    /\ UNCHANGED <<readVars, storeVars, req, Broadcast, limVars, now, lastSweep, sweepKept, hubVars>>

\* tx.Create(&vote): the row is the transaction's own until the commit
VoteCreate(h) ==
    /\ pc[h] = "read"
    /\ \E ok \in BOOLEAN :
        IF ok THEN pc' = [pc EXCEPT ![h] = "voted"] /\ resp' = resp
        ELSE Answer(h, 500)
    /\ UNCHANGED <<readVars, storeVars, req, local, Broadcast, limVars, now, lastSweep, sweepKept, hubVars>>

\* newScore = post.Score + input.Value
NewScore(score, value) == score + value

\* tx.Model(&post).Update("score", newScore): waits for the row's write lock
VoteUpdate(h) ==
    /\ pc[h] = "voted"
    /\ rowLock[req[h].post] = {}
    /\ \E ok \in BOOLEAN :
        IF ok
        THEN /\ local' = [local EXCEPT
                    ![h].newScore = NewScore(local[h].score, req[h].value)]
             /\ rowLock' = [rowLock EXCEPT ![req[h].post] = {h}]
             /\ pc' = [pc EXCEPT ![h] = "updated"]
             /\ resp' = resp
        ELSE Answer(h, 500) /\ local' = local /\ rowLock' = rowLock
    /\ UNCHANGED <<readVars, posts, voteRows, req, Broadcast, limVars, now, lastSweep, sweepKept, hubVars>>

\* a vote that writes back the whole post it read (a Save of the struct)
VoteCommitSavesPost(h) ==
    [posts EXCEPT ![req[h].post] =
        [exists |-> TRUE, score |-> local[h].newScore, hidden |-> FALSE]]

\* what the commit of a vote transaction makes visible
VoteCommitPosts(h) ==
    [posts EXCEPT ![req[h].post].score = local[h].newScore]

VoteCommitRows(h) ==
    voteRows \cup {[by |-> h, post |-> req[h].post, value |-> req[h].value]}

VoteCommit(h) ==
    /\ pc[h] = "updated"
    /\ \E ok \in BOOLEAN :
        IF ok
        THEN /\ posts' = VoteCommitPosts(h)
             /\ voteRows' = VoteCommitRows(h)
             /\ pc' = [pc EXCEPT ![h] = "committed"]
             /\ resp' = resp
        ELSE Answer(h, 500) /\ posts' = posts /\ voteRows' = voteRows
    /\ rowLock' = Rollback(h)
    /\ UNCHANGED <<readVars, req, local, Broadcast, limVars, now, lastSweep, sweepKept, hubVars>>

VoteMsg(h) ==
    [type |-> "vote_update", id |-> req[h].post, newScore |-> local[h].newScore,
     by |-> h]

\* a broadcast moved into the transaction's function, after the score update
VoteBroadcastInsideTx(h) == pc[h] \in {"updated", "committed"}

\* the transaction has returned nil (err != nil returns before the broadcast)
VoteReturnedNil(h) == pc[h] = "committed"

\* after the transaction returned nil: broadcast, then 200
VoteBroadcast(h) ==
    /\ VoteReturnedNil(h)
    /\ broadcastMessage(VoteMsg(h))
    /\ Answer(h, 200)
    /\ UNCHANGED <<readVars, storeVars, req, local, limVars, now, lastSweep, sweepKept, hubVars>>

VoteOnPost(h) ==
    \/ VoteBind(h)
    \/ VoteFirst(h)
    \/ VoteCreate(h)
    \/ VoteUpdate(h)
    \/ VoteCommit(h)
    \/ VoteBroadcast(h)

(* ---------------------------- rate limiter ---------------------------- *)
\* IPRateLimiter.GetLimiter, under rl.mu: the visitors map after the call
GetLimiterMap(ip) ==
    IF ip \notin DOMAIN visitors
    THEN (ip :> (limMade + 1)) @@ visitors
    ELSE visitors

\* rate.NewLimiter(rl.rps, rl.burst): a new bucket starts full
GetLimiterTokens(ip) ==
    IF ip \notin DOMAIN visitors
    THEN [limTokens EXCEPT ![limMade + 1] = rateLimitBurst]
    ELSE limTokens

\* rate.Limiter.Allow: whether a token is there now
Allow(l) == limTokens[l] >= 1

\* RateLimitMiddleware, first half: ip := c.ClientIP(); limiter.GetLimiter(ip)
RateLimitGet(h) ==
    /\ pc[h] = "idle"
    /\ Arrived(h)
    /\ \E ip \in IPs :
        /\ ip \notin DOMAIN visitors => limMade < MaxLimiters
        /\ req' = [req EXCEPT ![h] = [NoReq EXCEPT !.ip = ip]]
        /\ visitors' = GetLimiterMap(ip)
        /\ limTokens' = GetLimiterTokens(ip)
        /\ limMade' = IF ip \notin DOMAIN visitors THEN limMade + 1 ELSE limMade
        /\ held' = (h :> GetLimiterMap(ip)[ip]) @@ held
    /\ pc' = [pc EXCEPT ![h] = "limiter"]
    /\ UNCHANGED <<readVars, storeVars, local, resp, Broadcast, limPassed, now, lastSweep, sweepKept,
                   hubVars>>

\* RateLimitMiddleware, second half: .Allow() on the limiter it got; 429 or c.Next()
RateLimitAllow(h) ==
    /\ pc[h] = "limiter"
    /\ IF Allow(held[h])
         THEN /\ limTokens' = [limTokens EXCEPT ![held[h]] = @ - 1]
              /\ limPassed' = [limPassed EXCEPT ![h] = TRUE]
              /\ pc' = [pc EXCEPT ![h] = "handler"]
              /\ resp' = resp
         ELSE /\ Answer(h, 429)
              /\ limTokens' = limTokens
              /\ limPassed' = limPassed
    /\ held' = [g \in (DOMAIN held) \ {h} |-> held[g]]
    /\ UNCHANGED <<readVars, storeVars, req, local, Broadcast, visitors, limMade,
                   now, lastSweep, sweepKept, hubVars>>

\* the passing of one refill interval: rate.Limiter refills one token per
\* 1/rateLimitRPS seconds, up to its burst
Refill(tokens) == IF tokens < rateLimitBurst THEN tokens + 1 ELSE rateLimitBurst

Tick ==
    /\ now < MaxTicks
    /\ now' = now + 1
    /\ limTokens' = [l \in LimIds |-> IF l <= limMade THEN Refill(limTokens[l])
                                                      ELSE limTokens[l]]
    /\ UNCHANGED <<readVars, storeVars, procVars, Broadcast, visitors, limMade, held,
                   limPassed, lastSweep, sweepKept, hubVars>>

\* a sweep that deletes every bucket of the map
SweepDeletesAll == DOMAIN visitors

\* the sweep of SetupRoutes, under limiter.mu: v.Allow() on every bucket of
\* the map, and a bucket that allowed is deleted
SweepDeletes == {ip \in DOMAIN visitors : Allow(visitors[ip])}

SweepMap == [ip \in (DOMAIN visitors) \ SweepDeletes |-> visitors[ip]]

SweepTokens ==
    [l \in LimIds |->
        IF \E ip \in SweepDeletes : visitors[ip] = l THEN limTokens[l] - 1
                                                     ELSE limTokens[l]]

Sweep ==
    /\ now - lastSweep >= SweepEvery
    /\ lastSweep' = now
    /\ sweepKept' = (DOMAIN visitors) \ SweepDeletes
    /\ visitors' = SweepMap
    /\ limTokens' = SweepTokens
    /\ UNCHANGED <<readVars, storeVars, procVars, Broadcast, limMade, held, limPassed, now,
                   hubVars>>

(* ------------------------------ CreatePost ---------------------------- *)
\* the primary key the store gives the next post
NextPostId == Cardinality({p \in PostIds : posts[p].exists}) + 1

NewPost == [exists |-> TRUE, score |-> InitialScore, hidden |-> FALSE]

\* ShouldBindJSON, then e.DB.Create(&post)
CreateInsert(h) ==
    /\ pc[h] = "handler"
    /\ \E len \in ContentLens :
        IF ~BindCreate(len)
        THEN Answer(h, 400) /\ posts' = posts /\ req' = req
        ELSE /\ NextPostId \in PostIds
             /\ \E ok \in BOOLEAN :
                    IF ok
                    THEN /\ posts' = [posts EXCEPT ![NextPostId] = NewPost]
                         /\ req' = [req EXCEPT ![h].post = NextPostId]
                         /\ pc' = [pc EXCEPT ![h] = "committed"]
                         /\ resp' = resp
                    ELSE /\ Answer(h, 500)
                         /\ posts' = posts
                         /\ req' = req
    /\ UNCHANGED <<readVars, voteRows, rowLock, local, Broadcast, limVars, now, lastSweep, sweepKept,
                   hubVars>>

CreateMsg(h) ==
    [type |-> "new_post", id |-> req[h].post, newScore |-> InitialScore, by |-> h]

CreateBroadcast(h) ==
    /\ pc[h] = "committed"
    /\ broadcastMessage(CreateMsg(h))
    /\ Answer(h, 201)
    /\ UNCHANGED <<readVars, storeVars, req, local, limVars, now, lastSweep, sweepKept, hubVars>>

\* api.POST("/posts", RateLimitMiddleware(limiter), env.CreatePost)
CreatePost(h) ==
    \/ RateLimitGet(h)
    \/ RateLimitAllow(h)
    \/ CreateInsert(h)
    \/ CreateBroadcast(h)

(* ------------------------------ DeletePost ---------------------------- *)
\* a middleware that asks only for the header to be there
AdminAuthAnyToken(token) == IF token = "" THEN 401 ELSE 200

\* AdminAuthMiddleware: 401 without the header, 403 with a wrong one
AdminAuth(token) ==
    IF token = "" THEN 401
    ELSE IF token # RequiredToken THEN 403
    ELSE 200

DeleteAuth(h) ==
    /\ pc[h] = "idle"
    /\ \E p \in PostIds, t \in Tokens :
        /\ req' = [req EXCEPT ![h] = [NoReq EXCEPT !.post = p, !.token = t]]
        /\ IF AdminAuth(t) = 200
             THEN pc' = [pc EXCEPT ![h] = "tx"] /\ resp' = resp
             ELSE Answer(h, AdminAuth(t))
    /\ UNCHANGED <<readVars, storeVars, local, Broadcast, limVars, now, lastSweep, sweepKept, hubVars>>

\* tx.First(&post, postID): any row with that id, hidden or not
DeleteSelectable(p) == posts[p].exists

DeleteFirst(h) ==
    /\ pc[h] = "tx"
    /\ \E ok \in BOOLEAN :
        IF ~ok THEN Answer(h, 500)
        ELSE IF DeleteSelectable(req[h].post)
        THEN pc' = [pc EXCEPT ![h] = "read"] /\ resp' = resp
        ELSE Answer(h, 404)
    /\ UNCHANGED <<readVars, storeVars, req, local, Broadcast, limVars, now, lastSweep, sweepKept, hubVars>>

\* tx.Model(&post).Update("hidden", true): waits for the row's write lock
DeleteUpdate(h) ==
    /\ pc[h] = "read"
    /\ rowLock[req[h].post] = {}
    /\ \E ok \in BOOLEAN :
        IF ok
        THEN /\ rowLock' = [rowLock EXCEPT ![req[h].post] = {h}]
             /\ pc' = [pc EXCEPT ![h] = "updated"]
             /\ resp' = resp
        ELSE Answer(h, 500) /\ rowLock' = rowLock
    /\ UNCHANGED <<readVars, posts, voteRows, req, local, Broadcast, limVars, now, lastSweep, sweepKept, hubVars>>

DeleteCommitPosts(h) == [posts EXCEPT ![req[h].post].hidden = TRUE]

DeleteCommit(h) ==
    /\ pc[h] = "updated"
    /\ \E ok \in BOOLEAN :
        IF ok
        THEN /\ posts' = DeleteCommitPosts(h)
             /\ pc' = [pc EXCEPT ![h] = "committed"]
             /\ resp' = resp
        ELSE Answer(h, 500) /\ posts' = posts
    /\ rowLock' = Rollback(h)
    /\ UNCHANGED <<readVars, voteRows, req, local, Broadcast, limVars, now, lastSweep, sweepKept, hubVars>>

DeleteMsg(h) ==
    [type |-> "delete_post", id |-> req[h].post, newScore |-> 0, by |-> h]

DeleteBroadcast(h) ==
    /\ pc[h] = "committed"
    /\ broadcastMessage(DeleteMsg(h))
    /\ Answer(h, 200)
    /\ UNCHANGED <<readVars, storeVars, req, local, limVars, now, lastSweep, sweepKept, hubVars>>

\* api.DELETE("/posts/:id", AdminAuthMiddleware(), env.DeletePost)
DeletePost(h) ==
    \/ DeleteAuth(h)
    \/ DeleteFirst(h)
    \/ DeleteUpdate(h)
    \/ DeleteCommit(h)
    \/ DeleteBroadcast(h)

(* --------------------------- the read queries ------------------------- *)
\* a query without the Where("hidden = ?", false)
ReadSelectableAnyRow(p) == posts[p].exists

\* Where("hidden = ?", false) on the committed table
ReadSelectable(p) == posts[p].exists /\ ~posts[p].hidden

\* GetPosts: Order("created_at desc").Where("hidden = ?", false).Find(&posts)
GetPostsResult == {p \in PostIds : ReadSelectable(p)}

\* whether post p comes before post q in Order("score desc, created_at desc");
\* posts are created in the order of their ids
TrendsBefore(p, q) ==
    \/ posts[p].score > posts[q].score
    \/ posts[p].score = posts[q].score /\ p > q

\* GetTrendingPosts: the same rows in that order, cut by Limit(20)
GetTrendingResult ==
    {p \in GetPostsResult :
        Cardinality({q \in GetPostsResult : TrendsBefore(q, p)}) < trendingLimit}

\* a read query is answered: 200 with the rows, or 500 on a store error
\* (then the answer holds no post)
ReadAnswer(result) ==
    /\ reads < NumReads
    /\ reads' = reads + 1
    /\ \E ok \in BOOLEAN :
        lastRead' = IF ok THEN [status |-> 200, posts |-> result]
                          ELSE [status |-> 500, posts |-> {}]
    /\ UNCHANGED <<storeVars, procVars, Broadcast, limVars, now, lastSweep, sweepKept, hubVars>>

GetPosts == ReadAnswer(GetPostsResult)

GetTrendingPosts == ReadAnswer(GetTrendingResult)

(* ------------------------------- the hub ------------------------------ *)
(* ws.Hub and its connections.  A connection asks to be registered when    *)
(* ServeWs opens it; the hub's one loop serves register, unregister and    *)
(* broadcast requests one at a time, whichever is ready.                   *)

\* a fan-out that gives up at the first full queue
GotPayloadUnlessOneFull(members) ==
    IF \E c \in members : Len(sendq[c]) >= SendCap THEN {} ELSE members

\* fan-out of one payload: a connection with room in its outbound queue gets
\* the payload; a connection whose queue is full is dropped
GotPayload(members) == {c \in members : Len(sendq[c]) < SendCap}

Evicted(members) == members \ GotPayload(members)

\* a fan-out over every open connection, registered or not
FanOutToOpen(msg) ==
    [c \in ConnIds |->
        IF conn[c] = "open" /\ Len(sendq[c]) < SendCap
        THEN Append(sendq[c], msg) ELSE sendq[c]]

FanOutQueues(msg) ==
    [c \in ConnIds |->
        IF c \in GotPayload(clients) THEN Append(sendq[c], msg) ELSE sendq[c]]

\* a fan-out that sends to each member with a blocking send: it waits on
\* every member whose queue is full
FanOutWaitsOnFull(members) == {c \in members : Len(sendq[c]) >= SendCap}

\* the members the fan-out waits on: none, a full queue is dropped at once
FanOutWaits(members) == {}

\* the hub's loop takes the next payload off the Broadcast channel
HubBroadcast ==
    /\ Broadcast # <<>>
    /\ FanOutWaits(clients) = {}
    /\ Broadcast' = Tail(Broadcast)
    /\ sendq' = FanOutQueues(Head(Broadcast))
    /\ clients' = clients \ Evicted(clients)
    /\ closed' = closed \cup Evicted(clients)
    /\ closes' = [c \in ConnIds |->
                    IF c \in Evicted(clients) THEN closes[c] + 1 ELSE closes[c]]
    /\ atCall' = [m \in {k \in DOMAIN atCall : k >= Head(Broadcast).id} |-> atCall[m]]
    /\ UNCHANGED <<readVars, storeVars, procVars, limVars, now, lastSweep, sweepKept, wire, conn>>

\* the register case of the hub's loop
HubRegister(c) == clients' = clients \cup {c}

\* an unregister case that leaves the set as it is
UnregisterKeepsSet(c) == clients

\* the hub's set after the unregister case
UnregisterSet(c) == clients \ {c}

\* an unregister case that closes the queue without asking whether the
\* connection is in the set
UnregisterClosesAlways(c) == {c}

\* the queues the unregister case closes: the connection's, if it is in the
\* set; a connection that is not in the set is left alone
UnregisterCloses(c) == {c} \cap clients

\* a loop that takes a request to unregister only from a member of its set
UnregisterTakenFromMember(c) == c \in clients

\* the hub's loop takes the request to unregister of any connection, member
\* of its set or not
UnregisterTaken(c) == TRUE

\* the unregister case of the hub's loop, taking the request of a connection
\* that tore itself down
HubUnregister(c) ==
    /\ conn[c] = "failed"
    /\ UnregisterTaken(c)
    /\ clients' = UnregisterSet(c)
    /\ closed' = closed \cup UnregisterCloses(c)
    /\ closes' = [d \in ConnIds |->
                    IF d \in UnregisterCloses(c) THEN closes[d] + 1 ELSE closes[d]]
    /\ conn' = [conn EXCEPT ![c] = "gone"]
    /\ UNCHANGED <<readVars, storeVars, procVars, limVars, now, lastSweep, sweepKept, Broadcast,
                   sendq, wire, atCall>>

\* ServeWs: a client opens a live link and the connection hands itself to the
\* hub's loop, which registers it.  Connections are numbered in the order in
\* which they are opened.
ServeWs(c) ==
    /\ conn[c] = "new"
    /\ \A d \in 1..(c - 1) : conn[d] # "new"
    /\ HubRegister(c)
    /\ conn' = [conn EXCEPT ![c] = "open"]
    /\ UNCHANGED <<readVars, storeVars, procVars, limVars, now, lastSweep, sweepKept, Broadcast,
                   sendq, closed, closes, wire, atCall>>

\* an outbound duty that writes the newest queued payload first
WriteNewestFirst(q) == Len(q)

\* the place in the queue of the payload the outbound duty writes next
WriteNext(q) == 1

\* the outbound duty takes the next queued payload and writes it to the
\* network
WritePump(c) ==
    /\ conn[c] = "open"
    /\ sendq[c] # <<>>
    /\ wire' = [wire EXCEPT ![c] = sendq[c][WriteNext(sendq[c])].id]
    /\ sendq' = [sendq EXCEPT ![c] =
                    [i \in 1..(Len(@) - 1) |->
                        IF i < WriteNext(sendq[c]) THEN @[i] ELSE @[i + 1]]]
    /\ UNCHANGED <<readVars, storeVars, procVars, limVars, now, lastSweep, sweepKept, Broadcast,
                   clients, closed, closes, conn, atCall>>

\* a read or write failure, or the outbound queue found closed: the
\* connection tears itself down (both duties stop) and asks the hub to
\* unregister it
Teardown(c) ==
    /\ conn[c] = "open"
    /\ conn' = [conn EXCEPT ![c] = "failed"]
    /\ UNCHANGED <<readVars, storeVars, procVars, limVars, now, lastSweep, sweepKept, Broadcast,
                   clients, sendq, closed, closes, wire, atCall>>

\* the number of the next payload to be handed over
NextMsg ==
    IF DOMAIN atCall = {} THEN 1
    ELSE (CHOOSE k \in DOMAIN atCall : \A j \in DOMAIN atCall : j <= k) + 1

\* a caller of broadcast: a handler's e.broadcastMessage(msg).  Payloads are
\* numbered in the order in which they are handed over.
Notify(m) ==
    /\ m = NextMsg
    /\ broadcastMessage([type |-> "new_post", id |-> m, newScore |-> InitialScore,
                         by |-> m])
    /\ atCall' = (m :> clients) @@ atCall
    /\ UNCHANGED <<readVars, storeVars, procVars, limVars, now, lastSweep, sweepKept, clients, sendq,
                   closed, closes, wire, conn>>

(* --------------------------- specifications --------------------------- *)
\* concurrent requests on the store: n votes and one DeletePost, and the hub
\* draining its channel
StoreNext(n) ==
    \/ \E h \in 1..n : VoteOnPost(h)
    \/ DeletePost(n + 1)
    \/ HubBroadcast

Next == StoreNext(NumVoters)

Spec == Init /\ [][Next]_vars

NextThree == StoreNext(ScenarioVotes)

SpecThree == Init /\ [][NextThree]_vars

\* the hub, its connections and the callers of broadcast
NextHub ==
    \/ \E c \in ConnIds : ServeWs(c) \/ WritePump(c) \/ Teardown(c)
    \/ \E c \in ConnIds : HubUnregister(c)
    \/ \E m \in MsgIds : Notify(m)
    \/ HubBroadcast

SpecHub == Init /\ [][NextHub]_vars

\* the same under the scheduler's fairness to the hub's loop and to the
\* callers of broadcast: a case of the loop that stays ready is taken, and a
\* send that stays possible is done.  Nothing makes a connection drain its
\* queue or fail.
HubFairness ==
    /\ WF_vars(HubBroadcast)
    /\ \A c \in ConnIds : WF_vars(HubUnregister(c))
    /\ \A m \in MsgIds : WF_vars(Notify(m))

SpecHubFair == SpecHub /\ HubFairness

\* concurrent CreatePost requests through the rate limiter, the passing of
\* time and the sweep
NextLimiter ==
    \/ \E h \in 1..NumPosters : CreatePost(h)
    \/ Tick
    \/ Sweep
    \/ HubBroadcast

SpecLimiter == InitEmpty /\ [][NextLimiter]_vars

\* the rate limiter alone: the middleware's calls, the passing of time and
\* the sweep
NextSweep ==
    \/ \E h \in 1..NumPosters : RateLimitGet(h) \/ RateLimitAllow(h)
    \/ Tick
    \/ Sweep

SpecSweep == InitEmpty /\ [][NextSweep]_vars

\* concurrent DeletePost requests and read queries, and the hub draining its
\* channel
NextHide ==
    \/ \E h \in 1..NumAdmins : DeletePost(h)
    \/ GetPosts
    \/ GetTrendingPosts
    \/ HubBroadcast

SpecHide == Init /\ [][NextHide]_vars

(* ------------------------------ properties ---------------------------- *)
RECURSIVE SumOf(_, _)
\* the sum of f over the finite set S
SumOf(f, S) ==
    IF S = {} THEN 0
    ELSE LET x == CHOOSE y \in S : TRUE IN f[x] + SumOf(f, S \ {x})

\* the votes on post p that were answered 200
VotesAnswered200(p, n) == {h \in 1..n : resp[h] = 200 /\ req[h].post = p}

\* the value of each committed Vote row, and the rows of post p
RowValue == [r \in voteRows |-> r.value]

RowsOf(p) == {r \in voteRows : r.post = p}

AllVotesDone(n) == \A h \in 1..n : pc[h] = "done"

\* C1: no lost updates: once all the concurrent votes have finished, the
\* post's stored score is its initial score plus the signed sum of the values
\* of the votes that returned success.
NoLostUpdates ==
    AllVotesDone(NumVoters) =>
        \A p \in PostIds :
            posts[p].exists =>
                posts[p].score = InitialScore
                    + SumOf([h \in Procs |-> req[h].value],
                            VotesAnswered200(p, NumVoters))

\* C2: a post created with score 1 and three concurrent votes +1, +1, -1: every
\* interleaving in which the three are applied ends with score 2 and exactly
\* 3 Vote rows for the post.
ThreeVotesEndAtTwo ==
    ( /\ AllVotesDone(ScenarioVotes)
      /\ VotesAnswered200(1, ScenarioVotes) = 1..ScenarioVotes
      /\ Cardinality({h \in 1..ScenarioVotes : req[h].value = 1}) = 2
      /\ Cardinality({h \in 1..ScenarioVotes : req[h].value = -1}) = 1 )
    => (posts[1].score = 2 /\ Cardinality(RowsOf(1)) = 3)

\* C3: atomicity of a vote: in every committed state of the store, each post's
\* score is its initial score plus the signed sum of the Vote rows that
\* reference it.
ScoreMatchesVoteRows ==
    \A p \in PostIds :
        posts[p].exists =>
            posts[p].score = InitialScore + SumOf(RowValue, RowsOf(p))

\* what a request has left in the store and at the hub
RowsBy(h) == {r \in voteRows : r.by = h}

QueuedBy(h) == {i \in 1..Len(Broadcast) : Broadcast[i].by = h}

LocksOf(h) == {p \in PostIds : h \in rowLock[p]}

NothingFrom(h) ==
    RowsBy(h) = {} /\ QueuedBy(h) = {} /\ LocksOf(h) = {}

\* C4: a vote whose value is not +1 or -1 is answered 400 before any
\* transaction is opened: it reads nothing, locks nothing, leaves no Vote row
\* and no notification.
InvalidVoteRejected ==
    \A h \in 1..NumVoters :
        (pc[h] # "idle" /\ req[h].value \notin {-1, 1}) =>
            /\ pc[h] = "done"
            /\ resp[h] = 400
            /\ local[h] = [score |-> 0, newScore |-> 0]
            /\ NothingFrom(h)

InvalidVoteSeen ==
    \E h \in 1..NumVoters, g \in 1..NumVoters :
        /\ req[h].value = 0 /\ resp[h] = 400
        /\ req[g].value = 2 /\ resp[g] = 400

HiddenOrMissing(p) == ~posts[p].exists \/ posts[p].hidden

\* C5: a vote whose post is missing or hidden when the transaction's SELECT
\* runs ends there: it is answered 404 (500 when the SELECT itself failed with
\* a store error), the store and the channel are as before, and a vote
\* answered 404 has left no Vote row, no lock and no notification.
VoteOnMissingPostFails ==
    [][\A h \in 1..NumVoters :
        /\ (pc[h] = "tx" /\ pc'[h] # "tx" /\ HiddenOrMissing(req[h].post)) =>
            /\ pc'[h] = "done"
            /\ resp'[h] \in {404, 500}
            /\ UNCHANGED <<posts, voteRows, rowLock, Broadcast>>
        /\ resp'[h] = 404 => NothingFrom(h)'
      ]_vars

VoteOnHiddenPostSeen ==
    \E h \in 1..NumVoters, g \in 1..NumVoters :
        /\ resp[h] = 404 /\ posts[req[h].post].hidden
        /\ resp[g] = 404 /\ ~posts[req[g].post].exists

VoteIsCommitted(m) ==
    /\ [by |-> m.by, post |-> m.id, value |-> req[m.by].value] \in voteRows
    /\ LocksOf(m.by) = {}

\* C6: a vote_update is handed to the hub only after its vote's transaction
\* has committed and released the post row: every vote_update in the channel
\* is of a committed vote whose transaction holds no row, and its handler has
\* left the transaction with success.
BroadcastAfterCommit ==
    /\ \A i \in 1..Len(Broadcast) :
            Broadcast[i].type = "vote_update" => VoteIsCommitted(Broadcast[i])
    /\ \A h \in 1..NumVoters :
            QueuedBy(h) # {} => pc[h] = "done" /\ resp[h] = 200

VoteUpdateQueued ==
    \E i \in 1..Len(Broadcast) :
        Broadcast[i].type = "vote_update" /\ \E p \in PostIds : rowLock[p] # {}

\* the requests of one client address that the limiter admitted
AdmittedFrom(ip) == {h \in 1..NumPosters : req[h].ip = ip /\ limPassed[h]}

\* C7: for any fixed client identity, whatever the interleaving of allow calls
\* with the sweep, the requests admitted never exceed burst plus the refill
\* intervals elapsed.
AdmissionsWithinRate ==
    \A ip \in IPs : Cardinality(AdmittedFrom(ip)) <= rateLimitBurst + now

\* a request that has changed the store: its write is committed
HasMutated(h) == pc[h] = "committed" \/ resp[h] \in {200, 201}

\* C8: every inbound write operation (createPost, vote, hidePost) passes the
\* rate limiter's admit decision before it reaches any store mutation.
WritesPassLimiter == \A h \in Procs : HasMutated(h) => limPassed[h]

\* the connections whose outbound queue holds payload m
Holding(m) ==
    {c \in ConnIds : \E i \in 1..Len(sendq[c]) : sendq[c][i].id = m}

\* the same, after the step
HoldingAfter(m) ==
    {c \in ConnIds : \E i \in 1..Len(sendq'[c]) : sendq'[c][i].id = m}

\* the hub's loop takes a payload off the Broadcast channel in this step
FanOutStep == Broadcast # <<>> /\ Broadcast' = Tail(Broadcast)

BroadcastSendCompletes ==
    (Len(Broadcast) >= ChanCap) ~> (Len(Broadcast) < ChanCap)

\* every send has completed although a registered connection never wrote a
\* payload to its link and was dropped with a full queue
SentPastUnresponsive ==
    /\ NextMsg > NumMsgs
    /\ Broadcast = <<>>
    /\ \E c \in closed : conn[c] = "open" /\ wire[c] = 0 /\ Len(sendq[c]) >= SendCap

\* C12: per-connection delivery order: the hub takes payloads off its channel
\* in the order of their numbers, and what a connection writes to its link
\* is in that order too: each write is of the oldest payload in the
\* connection's queue, which is later in the hub's sequence than everything
\* the connection wrote before and earlier than everything it still holds.
DeliveryInHubOrder ==
    [][/\ FanOutStep =>
            \A c \in ConnIds :
                /\ wire[c] < Head(Broadcast).id
                /\ \A i \in 1..Len(sendq[c]) : sendq[c][i].id < Head(Broadcast).id
       /\ \A c \in ConnIds :
            wire'[c] # wire[c] =>
                /\ wire'[c] > wire[c]
                /\ \A i \in 1..Len(sendq[c]) : sendq[c][i].id >= wire'[c]
                /\ \A i \in 1..Len(sendq'[c]) : sendq'[c][i].id > wire'[c]
      ]_vars

\* a connection has written a payload to its link and holds two more
WroteWithTwoQueued ==
    \E c \in ConnIds : wire[c] > 0 /\ Len(sendq[c]) >= 2

\* the hub's loop serves connection c's unregister request in this step
UnregisterStep(c) == conn[c] = "failed" /\ conn'[c] = "gone"

NoEnqueueAfterUnregister ==
    [][/\ \A c \in ConnIds :
            conn[c] = "gone" =>
                c \notin clients /\ c \notin clients' /\ sendq'[c] = sendq[c]
       /\ clients' # clients =>
            \/ FanOutStep /\ clients' \subseteq clients
            \/ \E c \in ConnIds :
                    conn[c] = "new" /\ conn'[c] = "open" /\ clients' = clients \cup {c}
            \/ \E c \in ConnIds : UnregisterStep(c) /\ clients' = clients \ {c}
       /\ \A c \in ConnIds :
            (wire'[c] # wire[c] \/ (conn[c] = "open" /\ conn'[c] = "failed")) =>
                clients' = clients
      ]_vars

\* a connection that wrote payloads to its link is unregistered and gone,
\* and a later payload went to another connection and not to it
GoneMissedLaterPayload ==
    \E c \in ConnIds, m \in DOMAIN atCall :
        /\ conn[c] = "gone"
        /\ wire[c] > 0 /\ wire[c] < m
        /\ \A i \in 1..Len(sendq[c]) : sendq[c][i].id < m
        /\ Holding(m) # {}

\* what the middleware answers a request that carries token t
Refusal(t) == IF t = "" THEN 401 ELSE 403

\* the delete_post notifications in the channel that are of post p
DeleteQueued(p) ==
    {i \in 1..Len(Broadcast) :
        Broadcast[i].type = "delete_post" /\ Broadcast[i].id = p}

\* C15: admin-gated deletion: a hidePost request whose X-Admin-Token header is
\* absent or is not the configured secret is answered 401 (absent) or 403
\* (wrong) and goes no further: it holds no row, hides no post and enqueues
\* no notification; a post is hidden, and a delete_post is in the channel,
\* only by a request that carried the secret.
DeleteNeedsAdminToken ==
    /\ \A h \in 1..NumAdmins :
            (pc[h] # "idle" /\ req[h].token # RequiredToken) =>
                /\ pc[h] = "done"
                /\ resp[h] = Refusal(req[h].token)
                /\ NothingFrom(h)
    /\ \A p \in PostIds :
            (posts[p].hidden \/ DeleteQueued(p) # {}) =>
                \E h \in 1..NumAdmins :
                    req[h].post = p /\ req[h].token = RequiredToken

\* one request was refused for want of the header and one for a wrong token,
\* and the post they named is not hidden
DeleteRefusedSeen ==
    \E h \in 1..NumAdmins, g \in 1..NumAdmins :
        /\ resp[h] = 401 /\ resp[g] = 403
        /\ req[h].post = req[g].post
        /\ posts[req[h].post].exists /\ ~posts[req[h].post].hidden

\* C18: the read queries (latest posts and trending posts) return only posts
\* whose hidden flag is false: every answer of a read query holds only posts
\* that exist and are not hidden in the committed store at that moment, so
\* once a hidePost on a post has committed no later answer holds it.
ReadsExcludeHidden ==
    [][reads' # reads =>
            \A p \in lastRead'.posts : posts[p].exists /\ ~posts[p].hidden
      ]_vars

\* a read query was answered after post 1, the only post, was hidden: the
\* answer is empty
ReadAfterHideSeen ==
    /\ reads = NumReads
    /\ lastRead = [status |-> 200, posts |-> {}]
    /\ posts[1].hidden
    /\ \E h \in 1..NumAdmins : resp[h] = 200 /\ req[h].post = 1

\* C16: lazy bucket creation is an atomic get-or-insert: the requests of one
\* identity that are between GetLimiter and Allow, whatever the sweep did in
\* between, all hold one and the same bucket, so their admissions are
\* counted against the same tokens.
CallersShareBucket ==
    \A h \in DOMAIN held, g \in DOMAIN held :
        req[g].ip = req[h].ip => held[g] = held[h]

\* C17: the sweep evicts exactly the buckets that are full when it runs: a
\* bucket of the map that holds its full burst is removed, and any other (an
\* exhausted one) is kept, the same bucket with its tokens unchanged.
SweepEvictsFullOnly ==
    [][lastSweep' # lastSweep =>
        \A ip \in DOMAIN visitors :
            IF limTokens[visitors[ip]] >= rateLimitBurst
            THEN ip \notin DOMAIN visitors'
            ELSE /\ ip \in DOMAIN visitors'
                 /\ visitors'[ip] = visitors[ip]
                 /\ limTokens'[visitors[ip]] = limTokens[visitors[ip]]
      ]_vars

\* the sweep has run and kept an exhausted bucket, which is still in the map
\* without a token
SweepKeptExhausted ==
    \E ip \in sweepKept :
        /\ lastSweep = now
        /\ ip \in DOMAIN visitors
        /\ limTokens[visitors[ip]] = 0

\* C19: hidePost on a post that is absent or already hidden is answered
\* NotFound (404, or 500 when the store fails), changes no state and enqueues
\* no delete_post: the request's lookup of such a post ends the request, and
\* what a request answered 404 leaves behind is nothing.
HideOfHiddenNotFound ==
    [][\A h \in 1..NumAdmins :
        /\ (pc[h] = "tx" /\ pc'[h] # "tx" /\ HiddenOrMissing(req[h].post)) =>
            /\ pc'[h] = "done"
            /\ resp'[h] \in {404, 500}
            /\ UNCHANGED <<posts, voteRows, rowLock, Broadcast>>
        /\ resp'[h] = 404 => NothingFrom(h)'
      ]_vars

\* C20: connection teardown: a connection whose read or write failed stops
\* both duties (it writes nothing more to its link) and, under fair
\* scheduling of the hub's loop, its request to unregister is taken: a failed
\* connection's wait ends only by the hub removing it from its set, whenever
\* requests to unregister are waiting there comes a moment when none is, and
\* a connection whose teardown is over is never in the set.
TeardownLeavesSet ==
    /\ [][\A c \in ConnIds :
            /\ conn[c] # "open" => wire'[c] = wire[c]
            /\ (conn[c] = "failed" /\ conn'[c] # "failed") =>
                    (conn'[c] = "gone" /\ c \notin clients')
         ]_vars
    /\ [](\A c \in ConnIds : conn[c] = "gone" => c \notin clients)
    /\ (\E c \in ConnIds : conn[c] = "failed")
            ~> (\A c \in ConnIds : conn[c] # "failed")

\* a registered connection failed with a payload still in its outbound
\* queue and the hub has removed it, while another connection is still served
TornDownRemoved ==
    \E c \in ConnIds, d \in clients :
        /\ conn[c] = "gone" /\ c \notin clients
        /\ closes[c] = 1 /\ sendq[c] # <<>>
        /\ conn[d] = "open"

\* the votes on post p that are between their bind and their answer
VotesInFlight(p) ==
    {g \in 1..NumVoters : req[g].post = p /\ pc[g] \notin {"idle", "done"}}

\* C21: vote_update notifications of one post are enqueued in the order in
\* which their transactions committed: the vote that enqueues its
\* notification when no other vote on the post is still under way, so the
\* last one in the hub's sequence for that post, carries as newScore the
\* score the store holds for the post.
LastVoteUpdateIsFinalScore ==
    [][\A h \in 1..NumVoters :
        (/\ pc[h] = "committed" /\ pc'[h] = "done"
         /\ VotesInFlight(req[h].post) = {h}) =>
            /\ Len(Broadcast') > 0
            /\ Broadcast'[Len(Broadcast')] = VoteMsg(h)
            /\ VoteMsg(h).newScore = posts[req[h].post].score
      ]_vars

\* C22: the hidden flag is monotonic and votes leave it untouched: no step
\* takes a post from hidden to not hidden, a step that changes a post's score
\* (a vote's commit) leaves its hidden flag as it was, and a step that
\* changes its hidden flag (a hidePost's commit) leaves its score as it was.
HiddenMonotonicScoreApart ==
    [][\A p \in PostIds :
        /\ posts[p].hidden => posts'[p].hidden
        /\ posts'[p].score # posts[p].score =>
                posts'[p].hidden = posts[p].hidden
        /\ posts'[p].hidden # posts[p].hidden =>
                posts'[p].score = posts[p].score
      ]_vars

\* a post that a vote had changed was hidden without losing that score, and
\* another vote, which found it before the hidePost committed, is about to
\* commit its score on the hidden post
VoteCommitsOnHiddenPost ==
    \E p \in PostIds, h \in 1..NumVoters :
        /\ posts[p].hidden /\ posts[p].score # InitialScore
        /\ req[h].post = p /\ pc[h] = "updated"

====
